---- MODULE Spec2Model ----
(***************************************************************************)
(* A model of b2.Writer (src/b2/writer.go): one sequential caller of Write *)
(* and Close (the producer), the goroutines started by Writer.thread (the  *)
(* workers), the unbuffered channel w.ready between them, the WaitGroup    *)
(* w.wg, the three sync.Once gates and the error slot w.err.               *)
(*                                                                         *)
(* The remote service is an environment: every call into it (getUploadURL, *)
(* getUploadPartURL, uploadPart, uploadFile, startLargeFile, ListObjects,  *)
(* listParts, finishLargeFile, reupload) returns an outcome chosen with \E.*)
(* The accumulator is the in-memory buffer of newMemoryBuffer: a sequence  *)
(* of bytes whose Write and Reader do not fail.                            *)
(*                                                                         *)
(* The caller is sequential and follows the io.WriteCloser convention: no  *)
(* Write is issued after the first Close.  The context handed to the       *)
(* writer is cancelled by w.cancel only, never by its parent.              *)
(*                                                                         *)
(* Steps are atomic between two accesses to shared state (w.err, w.ready,  *)
(* w.wg) and two returns of remote calls: a remote call's return and the   *)
(* setErr that follows it are one step, the receive of a chunk and the     *)
(* setErr of a hash mismatch are two.                                      *)
(***************************************************************************)
EXTENDS Integers, Sequences, FiniteSets, TLC

\* ---------------------------------------------------------------- bounds
MaxTotal == 4        \* bytes the caller writes over all Write calls
MaxWrite == 3        \* longest argument of one Write call
MaxWorkers == 2      \* largest ConcurrentUploads the caller configures
MaxRetries == 1      \* retryable failures the environment produces in one run
MaxCloses == 2       \* Close calls the caller issues
MaxBackoffRetries == 12  \* the same budget in the runs of SpecBackoff

\* ------------------------------------------------------ program constants
DefaultChunkSize == 100000000
\* time.Millisecond * 15 and time.Second * 15, in milliseconds
SleepStart == 15
SleepMax == 15000

\* the byte values the caller writes; the stored hashes of RemoteStates
\* supply both the equal and the different hash for a chunk
Byte == {0}
\* the values of the attribute ChunkSize; 0 selects the default
ChunkSizes == {0, 2, 3}
Workers == 1..MaxWorkers
\* the goroutines that run a retry loop: 0 is the caller, in simpleWriteFile
Sleepers == {0} \cup Workers

\* error values: <<kind, origin>>; the empty tuple is Go's nil error
Nil == <<>>
Err(kind, who) == <<kind, who>>
ErrMismatch == Err("resume_mismatch", 0)
ErrCanceled == Err("context_canceled", 0)

NoChunk == [id |-> 0, buf |-> <<>>]

VARIABLES
  \* configuration (public attributes, set before the first Write)
  ConcurrentUploads, Resume, ChunkSize,
  \* the remote side, as ListObjects / listParts report it
  remote,
  \* Writer fields
  csize, started, onceDone, doneGate, ready, closed, wg, file, seen,
  cidx, w, err, ctxDone, objF,
  \* the producer: where the caller's current call stands
  ppc, rest, wacc, plen, inClose,
  \* the workers: position, chunk in hand, the local variable `sleep`
  wpc, held, sleep,
  \* environment budget: retryable failures produced, and how many may be
  budget, retries,
  \* history (observations only, never read by the program)
  total, wfail, wret, closeRes, handed, flushed, attempted, uploaded,
  skipped, mismatched, raised, startErr,
  nSimple, nUploadFile, nCloseQ, nFinish, atFinish, exitWhy,
  \* history of the retry loops: slept[0] is the last time.Sleep of
  \* simpleWriteFile, slept[i] that of worker i for the chunk in hand
  \* (0: none); stale[i]: the endpoint handle fc of worker i has failed
  \* an upload and has not been replaced
  slept, stale

config == <<ConcurrentUploads, Resume, ChunkSize, remote, budget>>
fields == <<csize, started, onceDone, doneGate, ready, closed, wg, file, seen,
            cidx, w, err, ctxDone, objF>>
prod == <<ppc, rest, wacc, plen, inClose>>
work == <<wpc, held, sleep>>
hist == <<total, wfail, wret, closeRes, handed, flushed, attempted, uploaded,
          skipped, mismatched, raised, startErr,
          nSimple, nUploadFile, nCloseQ, nFinish, atFinish, exitWhy>>
loops == <<slept, stale>>
vars == <<config, fields, prod, work, retries, hist, loops>>

\* ------------------------------------------------------------- the buffer
\* writeBuffer.Hash: a digest of the buffer's bytes (the bytes read as a
\* binary numeral behind a leading 1, so that distinct buffers differ)
RECURSIVE Hash(_)
Hash(buf) ==
  IF buf = <<>> THEN 1
  ELSE 2 * Hash(SubSeq(buf, 1, Len(buf) - 1)) + buf[Len(buf)]

Min(a, b) == IF a < b THEN a ELSE b

\* ------------------------------------------------------------- the remote
\* A stored part of an unfinished large file, as listParts reports it.
Part(n, sha, sz) == [number |-> n, sha1 |-> sha, size |-> sz]

\* The remote states the model starts from: no object of the target name,
\* or an unfinished large file with its stored parts (ascending by number)
\* and the number of parts the service returns per listing page.
RemoteStates ==
  { [exists |-> FALSE, parts |-> <<>>, limit |-> 1],
    [exists |-> TRUE, parts |-> <<>>, limit |-> 1],
    [exists |-> TRUE, parts |-> <<Part(1, Hash(<<0, 0>>), 2)>>, limit |-> 1],
    [exists |-> TRUE,
     parts |-> <<Part(1, Hash(<<0, 0>>), 2), Part(2, Hash(<<1, 1>>), 2)>>,
     limit |-> 1],
    [exists |-> TRUE,
     parts |-> <<Part(1, Hash(<<0, 0>>), 2), Part(2, Hash(<<1, 1>>), 2)>>,
     limit |-> 2] }

\* the stored parts numbered from `next` on
RECURSIVE PartsFrom(_, _)
PartsFrom(parts, next) ==
  IF parts = <<>> THEN <<>>
  ELSE IF parts[1].number >= next THEN parts
  ELSE PartsFrom(Tail(parts), next)

\* fi.listParts(ctx, next, max): one page and the continuation marker
\* (0 when nothing is left)
listParts(rem, next, max) ==
  LET from == PartsFrom(rem.parts, next)
      k == Min(Min(max, rem.limit), Len(from))
  IN [parts |-> SubSeq(from, 1, k),
      next |-> IF k < Len(from) THEN from[k + 1].number ELSE 0]

\* for _, p := range parts { seen[p.number()] = p.sha1(); size += p.size() }
RECURSIVE Accumulate(_, _)
Accumulate(parts, acc) ==
  IF parts = <<>> THEN acc
  ELSE Accumulate(Tail(parts),
                  [seen |-> (parts[1].number :> parts[1].sha1) @@ acc.seen,
                   size |-> acc.size + parts[1].size])

\* getLargeFile with a single listParts call
ListFirstPage(rem, next, acc) ==
  Accumulate(listParts(rem, next, 100).parts, acc)

\* the for-loop of getLargeFile, from the listParts call on
RECURSIVE ListLoop(_, _, _)
ListLoop(rem, next, acc) ==
  LET page == listParts(rem, next, 100)
      acc2 == Accumulate(page.parts, acc)
  IN IF Len(page.parts) = 0 \/ page.next = 0 THEN acc2
     ELSE ListLoop(rem, page.next, acc2)

\* Writer.getLargeFile without a failing remote call: the session handle,
\* the value left in w.seen and in w.Resume
getLargeFile(resume, rem) ==
  IF ~resume \/ ~rem.exists
  THEN [file |-> [kind |-> "started", size |-> 0, parts |-> <<>>],
        seen |-> <<>>, resume |-> FALSE]
  ELSE LET acc == ListLoop(rem, 1, [seen |-> <<>>, size |-> 0])
       IN [file |-> [kind |-> "compiled", size |-> acc.size,
                     parts |-> acc.seen],
           seen |-> acc.seen, resume |-> TRUE]

NoFile == [kind |-> "nil", size |-> 0, parts |-> <<>>]

\* ------------------------------------------------------------------ Init
\* the writer as Bucket.Object(...).NewWriter(ctx) returns it
Constructed ==
  /\ csize = 0 /\ started = FALSE /\ onceDone = FALSE /\ doneGate = FALSE
  /\ ready = FALSE /\ closed = FALSE /\ wg = 0
  /\ file = NoFile /\ seen = <<>>
  /\ cidx = 0 /\ w = <<>> /\ err = Nil /\ ctxDone = FALSE /\ objF = "nil"
  /\ ppc = "idle" /\ rest = <<>> /\ wacc = 0 /\ plen = 0 /\ inClose = FALSE
  /\ wpc = [i \in Workers |-> "none"]
  /\ held = [i \in Workers |-> NoChunk]
  /\ sleep = [i \in Workers |-> 0]
  /\ retries = 0
  /\ total = 0 /\ wfail = FALSE /\ wret = [full |-> TRUE, err |-> Nil]
  /\ closeRes = <<>>
  /\ handed = <<>> /\ flushed = 0
  /\ attempted = {} /\ uploaded = {} /\ skipped = {} /\ mismatched = {}
  /\ raised = {} /\ startErr = Nil
  /\ nSimple = 0 /\ nUploadFile = 0 /\ nCloseQ = 0 /\ nFinish = 0
  /\ atFinish = {}
  /\ exitWhy = [i \in Workers |-> "none"]
  /\ slept = [i \in Sleepers |-> 0]
  /\ stale = [i \in Workers |-> FALSE]

Init ==
  /\ ConcurrentUploads \in 0..MaxWorkers
  /\ Resume \in BOOLEAN
  /\ ChunkSize \in ChunkSizes
  /\ remote \in RemoteStates
  /\ budget = MaxRetries
  /\ Constructed

\* ------------------------------------------------------------- ErrorSink
\* setErr without the `if w.err == nil` of line 88
setErrLastWins(cur, e) ==
  IF e = Nil THEN cur ELSE e

\* Writer.setErr: the value of w.err after setErr(e) when it held cur
setErr(cur, e) ==
  IF e = Nil THEN cur
  ELSE IF cur = Nil THEN e ELSE cur

\* setErr with w.cancel() ahead of its tests of err and w.err
SetErrCancelFirst(e) ==
  /\ err' = setErr(err, e)
  /\ ctxDone' = TRUE
  /\ raised' = IF e = Nil THEN raised ELSE raised \cup {e}

\* Writer.setErr as a step: the mutex makes it atomic; w.cancel() fires
\* the context when the error is stored
SetErr(e) ==
  /\ err' = setErr(err, e)
  /\ ctxDone' = (ctxDone \/ (e # Nil /\ err = Nil))
  /\ raised' = IF e = Nil THEN raised ELSE raised \cup {e}

NoSetErr == UNCHANGED <<err, ctxDone, raised>>

\* ------------------------------------------------------------- sendChunk
\* w.once.Do(...) of sendChunk; lfOk says whether every remote call of
\* getLargeFile succeeded.  The goroutines of w.thread() start in "url".
sendChunkOnce(lfOk) ==
  IF onceDone \/ ~lfOk
  THEN /\ onceDone' = TRUE
       /\ UNCHANGED <<file, seen, Resume, ready, ConcurrentUploads, wpc>>
  ELSE LET lf == getLargeFile(Resume, remote)
           n == IF ConcurrentUploads < 1 THEN 1 ELSE ConcurrentUploads
       IN /\ onceDone' = TRUE
          /\ file' = lf.file
          /\ seen' = lf.seen
          /\ Resume' = lf.resume
          /\ ready' = TRUE
          /\ ConcurrentUploads' = n
          /\ wpc' = [i \in Workers |-> IF i <= n THEN "url" ELSE wpc[i]]

\* sendChunk without the w.cidx++ of line 297
cidxKept(c) == c

\* line 297: w.cidx++ after the send
cidxNext(c) == c + 1

\* the id w.cidx in place of w.cidx + 1
chunkIdStale(c) == c

\* the chunk the select of sendChunk offers on w.ready (line 291)
chunkId(c) == c + 1
nextChunk == [id |-> chunkId(cidx), buf |-> w]

\* ----------------------------------------------------------------- Write
\* start.Do of Write: the chunk size and the accumulator in force
csizeNow ==
  IF started THEN csize
  ELSE IF ChunkSize = 0 THEN DefaultChunkSize ELSE ChunkSize
bufNow == IF started THEN w ELSE <<>>
left == csizeNow - Len(bufNow)

\* the test of line 172 with <= in place of <
fitsInclusive(p) == Len(p) <= left

\* len(p) < left: the whole of p fits below the chunk size
fits(p) == Len(p) < left

\* Write returns (n, e) to the caller; wret keeps whether n = len(p) for
\* the p of the call, and e
WriteReturn(n, e, orig) ==
  /\ ppc' = "idle" /\ rest' = <<>> /\ wacc' = 0 /\ plen' = 0
  /\ wret' = [full |-> (n = orig), err |-> e]
  /\ wfail' = (wfail \/ e # Nil)

\* lines 161-163: the error is set, Write returns it at once (in the
\* recursive call the caller's setErr of the same error changes nothing)
WriteShort(p, acc, orig) ==
  /\ err # Nil
  /\ WriteReturn(acc, err, orig)
  /\ UNCHANGED <<config, fields, work, retries>>
  /\ UNCHANGED <<closeRes, handed, flushed, attempted, uploaded, skipped,
                 mismatched, raised, nSimple, nUploadFile, nCloseQ, nFinish,
                 atFinish, exitWhy>>
  /\ UNCHANGED loops

\* lines 164-173: p is appended to the accumulator
WriteBuffer(p, acc, orig) ==
  /\ err = Nil
  /\ fits(p)
  /\ started' = TRUE /\ csize' = csizeNow
  /\ w' = bufNow \o p
  /\ WriteReturn(acc + Len(p), Nil, orig)
  /\ UNCHANGED <<config, onceDone, doneGate, ready, closed, wg, file, seen,
                 cidx, err, ctxDone, objF, work, retries>>
  /\ UNCHANGED <<closeRes, handed, flushed, attempted, uploaded, skipped,
                 mismatched, raised, nSimple, nUploadFile, nCloseQ, nFinish,
                 atFinish, exitWhy>>
  /\ UNCHANGED loops

\* lines 175-183: the accumulator is filled to the chunk size and
\* sendChunk is entered; it fails in getLargeFile or blocks in its select
WriteFill(p, acc, orig, lfOk) ==
  /\ err = Nil
  /\ ~fits(p)
  /\ started' = TRUE /\ csize' = csizeNow
  /\ w' = bufNow \o SubSeq(p, 1, left)
  /\ sendChunkOnce(lfOk)
  /\ IF ~onceDone /\ ~lfOk
     THEN /\ SetErr(Err("large_file", 0))
          /\ WriteReturn(acc + left, setErr(err, Err("large_file", 0)), orig)
     ELSE /\ NoSetErr
          /\ ppc' = "send"
          /\ rest' = SubSeq(p, left + 1, Len(p))
          /\ wacc' = acc + left
          /\ plen' = orig
          /\ UNCHANGED <<wret, wfail>>
  /\ UNCHANGED <<ChunkSize, remote, budget, doneGate, closed, wg, cidx, objF,
                 held, sleep, retries>>
  /\ UNCHANGED <<closeRes, handed, flushed, attempted, uploaded, skipped,
                 mismatched, nSimple, nUploadFile, nCloseQ, nFinish, atFinish,
                 exitWhy>>
  /\ UNCHANGED loops

WriteBody(p, acc, orig) ==
  \/ WriteShort(p, acc, orig)
  \/ WriteBuffer(p, acc, orig)
  \/ \E lfOk \in BOOLEAN : WriteFill(p, acc, orig, lfOk)

\* the arguments of Write: runs of one byte value
Args == { [k \in 1..n |-> b] : n \in 0..MaxWrite, b \in Byte }

\* the caller calls Write(p)
Write(p) ==
  /\ ppc = "idle"
  /\ closeRes = <<>> /\ ~doneGate
  /\ total + Len(p) <= MaxTotal
  /\ total' = total + Len(p)
  /\ startErr' = err
  /\ inClose' = FALSE
  /\ WriteBody(p, 0, Len(p))

\* line 184: the recursive call Write(p[left:]) after a hand-off
WriteRec ==
  /\ ppc = "rec"
  /\ WriteBody(rest, wacc, plen)
  /\ UNCHANGED <<total, startErr, inClose>>

\* Close returns getErr() to the caller; e is the value of w.err it reads
CloseReturn(e) ==
  /\ ppc' = "idle"
  /\ closeRes' = Append(closeRes, e)

\* ------------------------------------------------- the select of sendChunk
\* a worker that never consults w.seen
dispatchUnseen(c) == "upload"

\* what the worker does with the chunk it received, up to its next
\* blocking call (lines 118-134): skip it, report a mismatch, or upload it
dispatch(c) ==
  IF c.id \in DOMAIN seen
  THEN IF seen[c.id] # Hash(c.buf) THEN "mismatch" ELSE "recv"
  ELSE "upload"

\* lines 289-299 with lines 114-134: the send on w.ready meets the receive
\* of worker i; the producer counts the chunk and starts a new accumulator
HandOff(i) ==
  /\ ppc = "send" /\ ready /\ ~closed
  /\ wpc[i] = "recv"
  /\ LET c == nextChunk
         to == dispatch(c)
     IN /\ wpc' = [wpc EXCEPT ![i] = to]
        /\ held' = [held EXCEPT ![i] = IF to = "recv" THEN NoChunk ELSE c]
        /\ skipped' = IF to = "recv" THEN skipped \cup {c.id} ELSE skipped
        /\ mismatched' = IF to = "mismatch" THEN mismatched \cup {c.id}
                         ELSE mismatched
        /\ attempted' = IF to = "upload" THEN attempted \cup {c.id}
                        ELSE attempted
        /\ handed' = Append(handed, c)
        /\ sleep' = [sleep EXCEPT ![i] = IF to = "upload" THEN SleepStart
                                         ELSE 0]
  /\ cidx' = cidxNext(cidx)
  /\ w' = <<>>
  /\ IF inClose
     THEN ppc' = "closeq" /\ flushed' = flushed + 1
     ELSE ppc' = "rec" /\ UNCHANGED flushed
  /\ UNCHANGED <<config, csize, started, onceDone, doneGate, ready, closed,
                 wg, file, seen, err, ctxDone, objF, rest, wacc, plen,
                 inClose, retries>>
  /\ UNCHANGED <<total, wfail, wret, closeRes, uploaded, raised, startErr,
                 nSimple, nUploadFile, nCloseQ, nFinish, atFinish, exitWhy>>
  /\ UNCHANGED loops

\* lines 294-295: the select takes <-w.ctx.Done(); sendChunk returns
\* ctx.Err() and its caller (Write line 181, Close line 312) passes it to
\* setErr and returns
SendCancelled ==
  /\ ppc = "send"
  /\ ctxDone
  /\ SetErr(ErrCanceled)
  /\ IF inClose
     THEN /\ CloseReturn(setErr(err, ErrCanceled))
          /\ UNCHANGED <<rest, wacc, plen, wret, wfail>>
     ELSE /\ WriteReturn(wacc, setErr(err, ErrCanceled), plen)
          /\ UNCHANGED closeRes
  /\ UNCHANGED <<config, csize, started, onceDone, doneGate, ready, closed,
                 wg, file, seen, cidx, w, objF, inClose, work, retries>>
  /\ UNCHANGED <<total, handed, flushed, attempted, uploaded, skipped,
                 mismatched, startErr, nSimple, nUploadFile, nCloseQ, nFinish,
                 atFinish, exitWhy>>
  /\ UNCHANGED loops

\* ----------------------------------------------------------------- Close
\* a Close whose body is not guarded by w.done
doneNever == FALSE

\* w.done.Do(...): whether the body of Close has already been run
doneRan == doneGate

\* Close when w.done has already run: only `return w.getErr()`
CloseAgain ==
  /\ ppc = "idle"
  /\ Len(closeRes) < MaxCloses
  /\ doneRan
  /\ startErr' = err
  /\ CloseReturn(err)
  /\ UNCHANGED <<config, fields, rest, wacc, plen, inClose, work, retries>>
  /\ UNCHANGED <<total, wfail, wret, handed, flushed, attempted, uploaded,
                 skipped, mismatched, raised, nSimple, nUploadFile, nCloseQ,
                 nFinish, atFinish, exitWhy>>
  /\ UNCHANGED loops

\* lines 305-309 and 192-206: the first Close with no chunk handed off
\* calls simpleWriteFile.  getUploadURL fails (urlOk = FALSE) or returns an
\* endpoint; then w.w.Hash() is called on the accumulator, which is the
\* nil interface until start.Do of Write has run.
CloseSimple(urlOk) ==
  /\ ppc = "idle"
  /\ Len(closeRes) < MaxCloses
  /\ ~doneRan
  /\ cidx = 0
  /\ doneGate' = TRUE
  /\ inClose' = TRUE
  /\ startErr' = err
  /\ nSimple' = nSimple + 1
  /\ IF ~urlOk
     THEN /\ SetErr(Err("upload_url", 0))
          /\ CloseReturn(setErr(err, Err("upload_url", 0)))
     ELSE /\ NoSetErr
          /\ ppc' = IF started THEN "simple" ELSE "panic"
          /\ UNCHANGED closeRes
  /\ nUploadFile' = IF urlOk /\ started THEN nUploadFile + 1 ELSE nUploadFile
  /\ UNCHANGED <<config, csize, started, onceDone, ready, closed, wg, file,
                 seen, cidx, w, objF, rest, wacc, plen, work, retries>>
  /\ UNCHANGED <<total, wfail, wret, handed, flushed, attempted, uploaded,
                 skipped, mismatched, nCloseQ, nFinish, atFinish, exitWhy>>
  /\ UNCHANGED loops

SimpleOutcomes == {"ok", "retry", "retry_no_url", "fatal"}

\* lines 206-220: uploadFile returns.  "retry": it failed, reupload(err)
\* holds and a fresh getUploadURL succeeded; "retry_no_url": the fresh
\* getUploadURL failed; "fatal": reupload(err) does not hold.
\* The loop calls no time.Sleep: slept[0] is left as it is.
SimpleReturn(out) ==
  /\ ppc = "simple"
  /\ CASE out = "ok" ->
            /\ objF' = "file"
            /\ SetErr(Nil)
            /\ CloseReturn(err)
            /\ UNCHANGED <<retries, nUploadFile>>
       [] out = "retry" ->
            /\ retries < budget
            /\ retries' = retries + 1
            /\ nUploadFile' = nUploadFile + 1
            /\ NoSetErr
            /\ UNCHANGED <<objF, ppc, closeRes>>
       [] out = "retry_no_url" ->
            /\ SetErr(Err("upload_url", 0))
            /\ CloseReturn(setErr(err, Err("upload_url", 0)))
            /\ UNCHANGED <<objF, retries, nUploadFile>>
       [] out = "fatal" ->
            /\ SetErr(Err("upload_file", 0))
            /\ CloseReturn(setErr(err, Err("upload_file", 0)))
            /\ UNCHANGED <<objF, retries, nUploadFile>>
  /\ UNCHANGED <<config, csize, started, onceDone, doneGate, ready, closed,
                 wg, file, seen, cidx, w, rest, wacc, plen, inClose, work>>
  /\ UNCHANGED <<total, wfail, wret, handed, flushed, attempted, uploaded,
                 skipped, mismatched, startErr, nSimple, nCloseQ, nFinish,
                 atFinish, exitWhy>>
  /\ UNCHANGED loops

\* lines 305-315: the first Close after a hand-off; a non-empty
\* accumulator goes through sendChunk, an empty one straight to close()
CloseMultipart ==
  /\ ppc = "idle"
  /\ Len(closeRes) < MaxCloses
  /\ ~doneRan
  /\ cidx # 0
  /\ doneGate' = TRUE
  /\ inClose' = TRUE
  /\ startErr' = err
  /\ ppc' = IF Len(w) > 0 THEN "send" ELSE "closeq"
  /\ sendChunkOnce(TRUE)
  /\ UNCHANGED <<ChunkSize, remote, budget, csize, started, closed, wg, cidx,
                 w, err, ctxDone, objF, rest, wacc, plen, held, sleep,
                 retries>>
  /\ UNCHANGED <<total, wfail, wret, closeRes, handed, flushed, attempted,
                 uploaded, skipped, mismatched, raised, nSimple, nUploadFile,
                 nCloseQ, nFinish, atFinish, exitWhy>>
  /\ UNCHANGED loops

\* line 316: close(w.ready)
CloseQueue ==
  /\ ppc = "closeq"
  /\ closed' = TRUE
  /\ nCloseQ' = nCloseQ + 1
  /\ ppc' = "wait"
  /\ UNCHANGED <<config, csize, started, onceDone, doneGate, ready, wg, file,
                 seen, cidx, w, err, ctxDone, objF, rest, wacc, plen, inClose,
                 work, retries>>
  /\ UNCHANGED <<total, wfail, wret, closeRes, handed, flushed, attempted,
                 uploaded, skipped, mismatched, raised, startErr, nSimple,
                 nUploadFile, nFinish, atFinish, exitWhy>>
  /\ UNCHANGED loops

\* lines 317-318: w.wg.Wait() returns when the counter is zero, and
\* finishLargeFile is called
CloseWait ==
  /\ ppc = "wait"
  /\ wg = 0
  /\ nFinish' = nFinish + 1
  /\ atFinish' = uploaded \cup skipped
  /\ ppc' = "finish"
  /\ UNCHANGED <<config, fields, rest, wacc, plen, inClose, work, retries>>
  /\ UNCHANGED <<total, wfail, wret, closeRes, handed, flushed, attempted,
                 uploaded, skipped, mismatched, raised, startErr, nSimple,
                 nUploadFile, nCloseQ, exitWhy>>
  /\ UNCHANGED loops

\* lines 318-325: finishLargeFile returns
FinishReturn(ok) ==
  /\ ppc = "finish"
  /\ IF ok
     THEN /\ objF' = "large"
          /\ NoSetErr
          /\ CloseReturn(err)
     ELSE /\ UNCHANGED objF
          /\ SetErr(Err("finish", 0))
          /\ CloseReturn(setErr(err, Err("finish", 0)))
  /\ UNCHANGED <<config, csize, started, onceDone, doneGate, ready, closed,
                 wg, file, seen, cidx, w, rest, wacc, plen, inClose, work,
                 retries>>
  /\ UNCHANGED <<total, wfail, wret, handed, flushed, attempted, uploaded,
                 skipped, mismatched, startErr, nSimple, nUploadFile, nCloseQ,
                 nFinish, atFinish, exitWhy>>
  /\ UNCHANGED loops

\* --------------------------------------------------------------- workers
\* a panic of the producer's goroutine ends the process, workers included
Running == ppc # "panic"

\* the worker's goroutine ends; registered says whether its deferred
\* w.wg.Done() is in force (it is from line 112 on)
WorkerExit(i, why, registered) ==
  /\ wpc' = [wpc EXCEPT ![i] = "done"]
  /\ exitWhy' = [exitWhy EXCEPT ![i] = why]
  /\ wg' = IF registered THEN wg - 1 ELSE wg

\* lines 106-112: the first getUploadPartURL returns; on success the
\* worker registers with the WaitGroup and goes to the receive
WorkerURL(i, ok) ==
  /\ Running
  /\ wpc[i] = "url"
  /\ IF ok
     THEN /\ wg' = wg + 1
          /\ wpc' = [wpc EXCEPT ![i] = "recv"]
          /\ NoSetErr
          /\ UNCHANGED exitWhy
     ELSE /\ SetErr(Err("part_url", i))
          /\ WorkerExit(i, "url", FALSE)
  /\ UNCHANGED <<config, csize, started, onceDone, doneGate, ready, closed,
                 file, seen, cidx, w, objF, prod, held, sleep, retries>>
  /\ UNCHANGED <<total, wfail, wret, closeRes, handed, flushed, attempted,
                 uploaded, skipped, mismatched, startErr, nSimple,
                 nUploadFile, nCloseQ, nFinish, atFinish>>
  /\ UNCHANGED loops

\* lines 114-117: the receive on the closed channel ends the loop
WorkerClosed(i) ==
  /\ Running
  /\ wpc[i] = "recv"
  /\ closed
  /\ WorkerExit(i, "closed", TRUE)
  /\ NoSetErr
  /\ UNCHANGED <<config, csize, started, onceDone, doneGate, ready, closed,
                 file, seen, cidx, w, objF, prod, held, sleep, retries>>
  /\ UNCHANGED <<total, wfail, wret, closeRes, handed, flushed, attempted,
                 uploaded, skipped, mismatched, startErr, nSimple,
                 nUploadFile, nCloseQ, nFinish, atFinish>>
  /\ UNCHANGED loops

\* lines 119-121: the hash of a seen chunk differs
WorkerMismatch(i) ==
  /\ Running
  /\ wpc[i] = "mismatch"
  /\ SetErr(ErrMismatch)
  /\ WorkerExit(i, "mismatch", TRUE)
  /\ UNCHANGED <<config, csize, started, onceDone, doneGate, ready, closed,
                 file, seen, cidx, w, objF, prod, held, sleep, retries>>
  /\ UNCHANGED <<total, wfail, wret, closeRes, handed, flushed, attempted,
                 uploaded, skipped, mismatched, startErr, nSimple,
                 nUploadFile, nCloseQ, nFinish, atFinish>>
  /\ UNCHANGED loops

\* lines 138-141 without the cap
nextSleepUncapped(d) == 2 * d

\* lines 138-141: sleep *= 2, capped at 15 s
nextSleep(d) == IF 2 * d > SleepMax THEN SleepMax ELSE 2 * d

\* a retry that goes back to `redo` with the endpoint handle it has
onRetrySameEndpoint == "upload"

\* lines 137-143: after a retryable failure the worker sleeps and calls
\* getUploadPartURL before it goes back to `redo`
onRetry == "reurl"

\* what uploadPart and the classifier reupload can answer for a chunk:
\*   ok     n = len and err = nil
\*   retry  n # len or err # nil, and reupload(err) holds
\*   fatal  err # nil and reupload(err) does not hold
\*   short  n # len, err = nil and reupload(nil) does not hold
UploadOutcomes == {"ok", "retry", "fatal", "short"}

\* the error line 151 passes to setErr
uploadErr(out, i) == IF out = "fatal" THEN Err("upload_part", i) ELSE Nil

\* lines 134-154: uploadPart returns for the chunk worker i holds
UploadReturn(i, out) ==
  /\ Running
  /\ wpc[i] = "upload"
  /\ CASE out = "ok" ->
            /\ uploaded' = uploaded \cup {held[i].id}
            /\ wpc' = [wpc EXCEPT ![i] = "recv"]
            /\ held' = [held EXCEPT ![i] = NoChunk]
            /\ sleep' = [sleep EXCEPT ![i] = 0]
            /\ slept' = [slept EXCEPT ![i] = 0]
            /\ NoSetErr
            /\ UNCHANGED <<wg, exitWhy, retries, stale>>
       [] out = "retry" ->
            /\ retries < budget
            /\ retries' = retries + 1
            /\ slept' = [slept EXCEPT ![i] = sleep[i]]
            /\ sleep' = [sleep EXCEPT ![i] = nextSleep(sleep[i])]
            /\ stale' = [stale EXCEPT ![i] = TRUE]
            /\ wpc' = [wpc EXCEPT ![i] = onRetry]
            /\ NoSetErr
            /\ UNCHANGED <<wg, exitWhy, held, uploaded>>
       [] out \in {"fatal", "short"} ->
            /\ SetErr(uploadErr(out, i))
            /\ WorkerExit(i, "not_retryable", TRUE)
            /\ UNCHANGED <<held, uploaded, retries, sleep, loops>>
  /\ UNCHANGED <<config, csize, started, onceDone, doneGate, ready, closed,
                 file, seen, cidx, w, objF, prod>>
  /\ UNCHANGED <<total, wfail, wret, closeRes, handed, flushed, attempted,
                 skipped, mismatched, startErr, nSimple, nUploadFile, nCloseQ,
                 nFinish, atFinish>>

\* lines 143-149: the getUploadPartURL of a retry returns
WorkerReURL(i, ok) ==
  /\ Running
  /\ wpc[i] = "reurl"
  /\ IF ok
     THEN /\ wpc' = [wpc EXCEPT ![i] = "upload"]
          /\ stale' = [stale EXCEPT ![i] = FALSE]
          /\ NoSetErr
          /\ UNCHANGED <<wg, exitWhy>>
     ELSE /\ SetErr(Err("part_url", i))
          /\ WorkerExit(i, "url", TRUE)
          /\ UNCHANGED stale
  /\ UNCHANGED <<config, csize, started, onceDone, doneGate, ready, closed,
                 file, seen, cidx, w, objF, prod, held, sleep, retries>>
  /\ UNCHANGED <<total, wfail, wret, closeRes, handed, flushed, attempted,
                 uploaded, skipped, mismatched, startErr, nSimple,
                 nUploadFile, nCloseQ, nFinish, atFinish>>
  /\ UNCHANGED slept

\* ------------------------------------------------------------------ Next
Next ==
  \/ \E p \in Args : Write(p)
  \/ WriteRec
  \/ \E i \in Workers : HandOff(i)
  \/ SendCancelled
  \/ CloseAgain
  \/ \E urlOk \in BOOLEAN : CloseSimple(urlOk)
  \/ \E out \in SimpleOutcomes : SimpleReturn(out)
  \/ CloseMultipart
  \/ CloseQueue
  \/ CloseWait
  \/ \E ok \in BOOLEAN : FinishReturn(ok)
  \/ \E i \in Workers, ok \in BOOLEAN : WorkerURL(i, ok)
  \/ \E i \in Workers : WorkerClosed(i)
  \/ \E i \in Workers : WorkerMismatch(i)
  \/ \E i \in Workers, out \in UploadOutcomes : UploadReturn(i, out)
  \/ \E i \in Workers, ok \in BOOLEAN : WorkerReURL(i, ok)

Spec == Init /\ [][Next]_vars

\* The runs in which the retry loops are followed up to the cap of the
\* backoff: one worker, chunks of two bytes, an unfinished large file whose
\* second part differs from what the caller writes (reconciled or not),
\* and an environment that fails retryably up to MaxBackoffRetries times.
InitBackoff ==
  /\ ConcurrentUploads = 1
  /\ Resume \in BOOLEAN
  /\ ChunkSize = 2
  /\ remote = [exists |-> TRUE,
               parts |-> <<Part(1, Hash(<<0, 0>>), 2),
                           Part(2, Hash(<<1, 1>>), 2)>>,
               limit |-> 1]
  /\ budget = MaxBackoffRetries
  /\ Constructed

SpecBackoff == InitBackoff /\ [][Next]_vars

\* ================================================================ claims
\* the chunk size in force (w.csize once Write has run)
C == csizeNow
\* the bytes accepted by the Write calls so far
L == total
Closed == closeRes # <<>>
HandedIds == { handed[j].id : j \in 1..Len(handed) }
LastClose == closeRes[Len(closeRes)]

\* C1: if Close returns no error after at least one hand-off, the session
\* finish was invoked, and when it was invoked every handed-off chunk had
\* been uploaded in full or skipped on a matching stored hash.
C1_NoChunkLostOnSuccess ==
  \A k \in 1..Len(closeRes) :
    (closeRes[k] = Nil /\ handed # <<>>) =>
      /\ nFinish = 1
      /\ HandedIds \subseteq atFinish

\* C2: successful Writes of total length L <= C followed by Close make
\* exactly one simple upload, hand off no chunk and start no session.
C2_AtMostOneChunkIsSimple ==
  (Closed /\ ~wfail /\ L <= C) =>
    /\ nSimple = 1
    /\ handed = <<>>
    /\ file = NoFile

\* C3: successful Writes of total length L > C followed by a successful
\* Close hand off floor(L/C) chunks, plus one inside Close iff L mod C # 0,
\* and the chunks carry the ids 1..k in hand-off order.
C3_ChunkCountAndIds ==
  (Closed /\ closeRes[1] = Nil /\ ~wfail /\ L > C) =>
    /\ Len(handed) = (L \div C) + (IF L % C # 0 THEN 1 ELSE 0)
    /\ flushed = (IF L % C # 0 THEN 1 ELSE 0)
    /\ \A j \in 1..Len(handed) : handed[j].id = j

C3_Witness ==
  /\ Closed /\ closeRes[1] = Nil /\ ~wfail /\ L > C
  /\ Len(handed) = 2 /\ flushed = 1

\* C4: any two Close calls on one writer return the same result.
C4_CloseResultsAgree ==
  \A j, k \in 1..Len(closeRes) : closeRes[j] = closeRes[k]

\* C5: over all Close calls, simpleWriteFile, the final-chunk flush,
\* close(w.ready) and finishLargeFile are each run at most once (the
\* retries inside one simpleWriteFile are one upload).
C5_FinalizeOnce ==
  /\ nSimple <= 1
  /\ flushed <= 1
  /\ nCloseQ <= 1
  /\ nFinish <= 1

C5_Witness ==
  /\ Len(closeRes) >= 2
  /\ flushed = 1 /\ nCloseQ = 1 /\ nFinish = 1

\* what Write and Close have returned agrees with the stored error
ObservedErr ==
  /\ err # Nil => err \in raised
  /\ wret.err # Nil => wret.err = err
  /\ \A k \in 1..Len(closeRes) : closeRes[k] # Nil => closeRes[k] = err
  /\ (ppc = "idle" /\ startErr # Nil /\ ~inClose) => wret.err = startErr
  /\ (ppc = "idle" /\ startErr # Nil /\ inClose) =>
        (Closed /\ LastClose = startErr)

\* C6: w.err goes from nil to one of the non-nil errors passed to setErr
\* and never changes afterwards; every error Write or Close returns, and
\* every result of a call begun after it was set, is that error.
C6_SingleAssignment ==
  [][ /\ err # Nil => err' = err
      /\ ObservedErr' ]_vars

C6_Witness ==
  /\ Cardinality(raised) >= 3
  /\ \E i \in Workers : err = Err("upload_part", i)
  /\ Len(closeRes) = 2

\* C7: a Write or Close begun after the error was set returns that error
\* and hands off no chunk, runs no simple upload, closes no queue and
\* finishes no session.
C7_ShortCircuit ==
  [][ startErr' # Nil =>
        /\ Len(handed') = Len(handed)
        /\ nUploadFile' = nUploadFile
        /\ nCloseQ' = nCloseQ
        /\ nFinish' = nFinish
        /\ (ppc' = "idle" /\ ~inClose') => wret'.err = startErr'
        /\ (ppc' = "idle" /\ inClose') => closeRes'[Len(closeRes')] = startErr'
    ]_vars

\* C8 as stated: a worker that found a hash mismatch has made the
\* resume-mismatch error the terminal error, and Close returns it.
C8_MismatchIsTheTerminalError ==
  /\ (\E i \in Workers : exitWhy[i] = "mismatch") => err = ErrMismatch
  /\ (mismatched # {} /\ Closed) => LastClose = ErrMismatch

\* C8, amended: a dequeued chunk whose id is in w.seen is never uploaded;
\* with the stored hash it is skipped and the worker returns to the
\* receive, with another hash the worker passes the resume-mismatch error
\* to setErr, so that the terminal error is set (to the first error
\* stored) and every Close returns a non-nil error.  A chunk whose id is
\* not in w.seen goes to uploadPart.
C8_ResumeByHash ==
  /\ \A j \in 1..Len(handed) :
       LET c == handed[j]
       IN IF c.id \in DOMAIN seen
          THEN /\ c.id \notin attempted
               /\ c.id \notin uploaded
               /\ IF seen[c.id] = Hash(c.buf)
                  THEN c.id \in skipped /\ c.id \notin mismatched
                  ELSE c.id \in mismatched /\ c.id \notin skipped
          ELSE /\ c.id \in attempted
               /\ c.id \notin skipped \cup mismatched
  /\ \A i \in Workers : held[i].id \notin skipped
  /\ \A i \in Workers :
       exitWhy[i] = "mismatch" => (err # Nil /\ ErrMismatch \in raised)
  /\ mismatched # {} => \A k \in 1..Len(closeRes) : closeRes[k] # Nil

C8_Witness ==
  /\ skipped # {} /\ mismatched # {}
  /\ \E i \in Workers : exitWhy[i] = "mismatch"
  /\ Closed /\ LastClose = ErrMismatch

\* C9: Close on a writer that never received a Write does not crash,
\* runs exactly one simple upload and returns getErr().
C9_CloseWithoutWrite ==
  (~started /\ doneGate) =>
    /\ ppc # "panic"
    /\ nSimple = 1
    /\ handed = <<>>
    /\ (ppc = "idle" => (Closed /\ LastClose = err))

\* C10: a worker that left its loop on an upload failure classified as
\* not retryable leaves the terminal error set.
C10_NoSilentAbandon ==
  \A i \in Workers : exitWhy[i] = "not_retryable" => err # Nil

\* the workers the pool has started (line 278-284) and those of them whose
\* goroutine has returned
StartedWorkers == { i \in Workers : wpc[i] # "none" }
Terminated(i) == wpc[i] = "done"

\* C11: on the multipart path, when Close has invoked finishLargeFile
\* every worker the pool started has terminated.  (A terminated worker
\* stays terminated, so the statement at the call is the statement over
\* the states from the call on.)
C11_FinishAfterAllWorkers ==
  nFinish > 0 => \A i \in StartedWorkers : Terminated(i)


\* C12: a hand-off is never blocked forever: in every state where the
\* producer stands in the select of sendChunk and every worker the pool
\* started has terminated, the context has been cancelled (so that the
\* select takes <-w.ctx.Done() and Write or Close returns).
C12_NoWorkerLeftImpliesCancelled ==
  (ppc = "send" /\ \A i \in StartedWorkers : Terminated(i)) => ctxDone


\* C13: a worker inside the retry loop keeps its chunk: from the upload
\* or from the getUploadPartURL of a retry it goes back to the receive
\* only when uploadPart has succeeded for the chunk it holds, it leaves
\* the loop otherwise only on a non-retryable failure or when the fresh
\* getUploadPartURL fails (and then the terminal error is set), and every
\* attempt is made on an endpoint handle that has not failed an upload.
C13_RetryKeepsChunk ==
  [][ \A i \in Workers :
        /\ wpc[i] \in {"upload", "reurl"} =>
             /\ wpc'[i] \in {"upload", "reurl", "recv", "done"}
             /\ wpc'[i] \in {"upload", "reurl"} => held'[i] = held[i]
             /\ wpc'[i] = "recv" =>
                  (wpc[i] = "upload" /\ held[i].id \in uploaded')
             /\ wpc'[i] = "done" =>
                  /\ exitWhy'[i] \in {"not_retryable", "url"}
                  /\ exitWhy'[i] = "url" => err' # Nil
        /\ wpc'[i] = "upload" => ~stale'[i]
    ]_vars

C13_Witness ==
  \E i \in Workers :
    /\ wpc[i] = "upload" /\ slept[i] > 0 /\ ~stale[i]
    /\ held[i].id \in attempted


\* C14: the time.Sleep calls of one chunk's retry loop last 15 ms at the
\* first retry and min(2 * previous, 15000) ms at each later one: never
\* shorter than the previous one, at most twice as long, at most 15 s;
\* a worker that takes a new chunk has not slept for it, so that its
\* first retry sleeps 15 ms again.
C14_BackoffSequence ==
  [][ \A i \in Workers :
        /\ (wpc[i] = "upload" /\ wpc'[i] = "reurl") =>
             /\ slept'[i] = IF slept[i] = 0 THEN 15
                            ELSE Min(2 * slept[i], 15000)
             /\ slept[i] <= slept'[i]
             /\ slept[i] > 0 => slept'[i] <= 2 * slept[i]
        /\ slept'[i] <= 15000
        /\ (held'[i] # held[i] /\ held'[i] # NoChunk) => slept'[i] = 0
    ]_vars

\* the only worker has slept 15 ms for chunk 2 after the eleven retries of
\* chunk 1, whose last sleep was the capped one
C14_Witness ==
  /\ retries = 12
  /\ 1 \in uploaded
  /\ held[1].id = 2 /\ slept[1] = 15 /\ sleep[1] = 30


\* C15: simpleWriteFile retries as a worker does: each retry of
\* uploadFile comes after a time.Sleep of 15 ms at the first retry and of
\* min(2 * previous, 15000) ms at each later one.
C15_SimpleRetryBackoff ==
  [][ (ppc = "simple" /\ nUploadFile' = nUploadFile + 1) =>
        slept'[0] = IF slept[0] = 0 THEN 15 ELSE Min(2 * slept[0], 15000)
    ]_vars


\* the hashes of the parts the remote holds, by part number
StoredParts ==
  [n \in { remote.parts[k].number : k \in 1..Len(remote.parts) } |->
     (CHOOSE pt \in { remote.parts[k] : k \in 1..Len(remote.parts) } :
        pt.number = n).sha1]

\* C16: once a worker has been started, w.seen holds, for a resumed
\* upload of an existing object, exactly the stored parts of all listing
\* pages with their hashes, and is empty with a fresh session otherwise
\* (w.Resume is TRUE afterwards only if the object was found); from then
\* on w.seen is never modified.
C16_SeenPartsComplete ==
  [][ /\ StartedWorkers' # {} =>
           IF Resume' /\ remote'.exists
           THEN seen' = StoredParts' /\ file'.kind = "compiled"
           ELSE DOMAIN seen' = {} /\ file'.kind = "started"
      /\ StartedWorkers # {} => seen' = seen
    ]_vars

C16_Witness ==
  /\ StartedWorkers # {}
  /\ Resume /\ remote.limit = 1
  /\ DOMAIN seen = {1, 2}
  /\ skipped # {}


\* the workers that hold a chunk
Holders == { i \in Workers : held[i] # NoChunk }

\* C17: a chunk id is handed off (dequeued) at most once and is held by
\* at most one worker, every chunk a worker holds is one that was handed
\* off, and the workers holding a chunk are among the
\* max(ConcurrentUploads, 1) workers the pool started.
C17_ExclusiveOwnership ==
  /\ \A j, k \in 1..Len(handed) : handed[j].id = handed[k].id => j = k
  /\ \A i, j \in Holders : held[i].id = held[j].id => i = j
  /\ \A i \in Holders : \E k \in 1..Len(handed) : handed[k] = held[i]
  /\ Holders \subseteq StartedWorkers
  /\ StartedWorkers # {} =>
       /\ ConcurrentUploads >= 1
       /\ Cardinality(StartedWorkers) = ConcurrentUploads
  /\ Cardinality(Holders) <= (IF ConcurrentUploads < 1 THEN 1
                              ELSE ConcurrentUploads)

C17_Witness ==
  /\ Cardinality(Holders) = 2
  /\ \A i \in Holders : wpc[i] = "upload"
  /\ Len(handed) = 2


\* C18: the context is cancelled only when the terminal error is set, and
\* the error of a cancelled hand-off (ctx.Err(), passed to setErr by Write
\* and Close) never becomes the terminal error nor the result of a call.
C18_CancelAfterError ==
  /\ ctxDone => err # Nil
  /\ err # ErrCanceled
  /\ wret.err # ErrCanceled
  /\ \A k \in 1..Len(closeRes) : closeRes[k] # ErrCanceled
  /\ ErrCanceled \in raised => (err # Nil /\ ctxDone)

\* a Write whose hand-off was cancelled has returned the terminal error
C18_Witness ==
  /\ ErrCanceled \in raised
  /\ ppc = "idle" /\ ~inClose
  /\ err # Nil /\ wret.err = err


\* the last call was a Write and it returned no error (then every Write
\* before it returned none either: a stored error fails all later calls)
AfterGoodWrite ==
  ppc = "idle" /\ started /\ ~doneGate /\ wret.err = Nil

C20_NoWorkerLeftBlocked ==
  (Closed /\ cidx # 0) =>
    \A i \in StartedWorkers : wpc[i] = "recv" => closed


====
